---- MODULE Spec2Model ----
(***************************************************************************)
(* State-machine model of universe-sim (src/src/main.js): the simulation   *)
(* clock, the per-frame update pipeline (tick), the trail ring buffers,    *)
(* the orbit camera gestures, picking and the HUD command handlers.        *)
(*                                                                         *)
(* Units.  Real time (performance.now, rAF stamps) is in whole             *)
(* milliseconds.  simTime is in simulated milliseconds counted from the    *)
(* instant the page was loaded, so dt[s] * timeScale simulated seconds is   *)
(* dtMs * timeScale simulated milliseconds, an integer.  yaw and pitch are *)
(* in milliradians, so the 0.005 rad per pixel of the source is 5.         *)
(* distance is in tenths of a scene unit; the product with 1.08 or 0.92 is *)
(* rounded down to that resolution.                                        *)
(*                                                                         *)
(* The ephemeris (astronomy-engine HelioVector) and the trigonometry of    *)
(* three.js are outside the repository: a position is the symbolic vector  *)
(* units * H(body, ut), the camera pose is the tuple of values it was      *)
(* derived from, and the pan direction is the symbolic unit vector         *)
(* Right(pose yaw).                                                        *)
(***************************************************************************)
EXTENDS Integers, Sequences, FiniteSets, TLC

\* ---------------------------------------------------------------- bounds
\* frames the pipeline specification runs
MaxTicks == 2
\* frames past the trail capacity the trail specification runs
TrailExtra == 2
\* frames of the trail specification after which Pause and Trails are left
\* alone
UiEarly == 2
\* frames the clock and the camera specifications run
ClockTicks == 2
CamTicks == 1
\* frames the session specification runs
SessionTicks == 1
\* largest |yaw| (mrad) and pan coefficient the camera specification follows
MaxYaw == 700
MaxPan == 100000
\* performance.now() when the script ends, ms
LoadMs == 120
\* real time between the last frame and a click on Now, ms
ClickLagMs == 8
\* most bodies one pick ray goes through
MaxHits == 2
\* real time between two frames, ms
FrameMs == 16

\* ------------------------------------------------------ program constants
AU_TO_UNITS == 220
maxPts == 220
samples == 360
\* Math.min(0.05, ...) seconds, in ms
FrameCapMs == 50
\* pitch clamp 1.25 rad and orbit rate 0.005 rad per pixel, in mrad
PitchLimit == 1250
OrbitRate == 5
\* distance clamp [50, 12000] and zoom step 0.08, in 1/10 unit and percent
MinDistance == 500
MaxDistance == 120000
ZoomPct == 8
InitYaw == 600
InitPitch == 350
InitDistance == 9000
InitTimeScale == 600
SliderMin == -20000
SliderMax == 20000
SliderStep == 10
ZeroScale == 1
RightButton == 2

bodies == <<"Mercury", "Venus", "Earth", "Mars",
            "Jupiter", "Saturn", "Uranus", "Neptune">>
NBodies == Len(bodies)
BodyIdx == 1..NBodies
Keys == {bodies[i] : i \in BodyIdx}
IndexOf(k) == CHOOSE i \in BodyIdx : bodies[i] = k

Min(a, b) == IF a < b THEN a ELSE b
Max(a, b) == IF a > b THEN a ELSE b
Sign(x) == IF x > 0 THEN 1 ELSE IF x < 0 THEN -1 ELSE 0

\* ------------------------------------------------------------- vectors
\* HelioVector(body, time) of astronomy-engine with the axis swap of
\* computeHelioPos: the symbolic vector 1 * H(body, ut), in AU.
computeHelioPos(body, time) ==
    [body |-> body, ut |-> time, units |-> 1, f32 |-> FALSE]
multiplyScalar(v, k) == [v EXCEPT !.units = v.units * k]
\* a store into the trail's Float32Array rounds the double to single precision
Fround(v) == [v EXCEPT !.f32 = TRUE]
\* an element of a fresh Float32Array
ZeroVec == [body |-> "none", ut |-> 0, units |-> 0, f32 |-> TRUE]

\* ---------------------------------------------------------------- state
VARIABLES
    isDragging, isRightDragging, lastX, lastY,  \* pointer drag state
    yaw, pitch, distance, target,               \* orbit camera state
    camera,                                     \* pose set by updateCamera
    planetMeshes,                               \* key -> mesh position
    trails,                                     \* key -> trail record
    orbitLines,                                 \* sequence of orbit loops
    raycaster,                                  \* ray of the last click
    selected, info,                             \* picked body, #info content
    simTime, paused, timeScale, showTrails,     \* time control
    timeScaleLabel, btnPauseText, btnTrailsText,\* HUD texts
    last,                                       \* stamp of the previous frame
    rafPending,                                 \* a frame callback is scheduled
    frames                                      \* frame callbacks started so far

camVars == <<isDragging, isRightDragging, lastX, lastY, yaw, pitch, distance, target>>
sceneVars == <<planetMeshes, trails, orbitLines>>
pickVars == <<raycaster, selected, info>>
clockVars == <<simTime, paused, timeScale, showTrails>>
hudVars == <<timeScaleLabel, btnPauseText, btnTrailsText>>
loopVars == <<last, rafPending, frames>>
vars == <<camVars, camera, sceneVars, pickVars, clockVars, hudVars, loopVars>>

null == "null"
Hint == [hint |-> "Click a planet"]

\* ------------------------------------------------------ camera (75-134)
\* target = origin + sum over pose yaws of right[yaw] * Right(yaw) + up * Up,
\* coefficients in 1/(10 * 1200) scene units (panSpeed is distance / 1200); right holds no zero entry
Origin == [right |-> <<>>, up |-> 0]
RightCoef(t, y) == IF y \in DOMAIN t.right THEN t.right[y] ELSE 0
addScaledVector(t, poseYaw, r, u) ==
    LET c == RightCoef(t, poseYaw) + r
        dom == IF c = 0 THEN DOMAIN t.right \ {poseYaw}
                        ELSE DOMAIN t.right \cup {poseYaw}
    IN [right |-> [y \in dom |-> IF y = poseYaw THEN c ELSE t.right[y]],
        up |-> t.up + u]

\* camera.position and camera.lookAt are functions of these four values
updateCamera == [yaw |-> yaw, pitch |-> pitch, distance |-> distance, target |-> target]

\* the clamp with its lower bound forgotten
ClampPitchUpper(p) == Min(PitchLimit, p)
ClampPitch(p) == Max(-PitchLimit, Min(PitchLimit, p))
ClampDistance(d) == Max(MinDistance, Min(MaxDistance, d))
\* the zoom with the wheel direction inverted
ZoomedInverted(d, delta) == (d * (100 - delta * ZoomPct)) \div 100
\* distance *= (1 + delta * 0.08)
Zoomed(d, delta) == (d * (100 + delta * ZoomPct)) \div 100

PointerDown(button, x, y) ==
    /\ isDragging' = TRUE
    /\ isRightDragging' = (button = RightButton)
    /\ lastX' = x
    /\ lastY' = y
    /\ UNCHANGED <<yaw, pitch, distance, target, camera, sceneVars, pickVars,
                   clockVars, hudVars, loopVars>>

\* a pointer-up that ends the drag and keeps the pan mode
PointerUpKeepingMode ==
    /\ isDragging' = FALSE
    /\ UNCHANGED <<isRightDragging, lastX, lastY, yaw, pitch, distance, target,
                   camera, sceneVars, pickVars, clockVars, hudVars, loopVars>>

\* a pointer-up that also drops the selection
PointerUpDeselecting ==
    /\ isDragging' = FALSE
    /\ isRightDragging' = FALSE
    /\ selected' = null
    /\ UNCHANGED <<lastX, lastY, yaw, pitch, distance, target, camera, sceneVars,
                   raycaster, info, clockVars, hudVars, loopVars>>

PointerUp ==
    /\ isDragging' = FALSE
    /\ isRightDragging' = FALSE
    /\ UNCHANGED <<lastX, lastY, yaw, pitch, distance, target, camera, sceneVars,
                   pickVars, clockVars, hudVars, loopVars>>

PointerMove(x, y) ==
    LET dx == x - lastX
        dy == y - lastY
    IN IF ~isDragging
       THEN UNCHANGED vars
       ELSE /\ lastX' = x
            /\ lastY' = y
            /\ IF isRightDragging
               THEN /\ target' = addScaledVector(target, camera.yaw,
                                                 (-dx) * distance, dy * distance)
                    /\ UNCHANGED <<yaw, pitch>>
               ELSE /\ yaw' = yaw - dx * OrbitRate
                    /\ pitch' = ClampPitch(pitch - dy * OrbitRate)
                    /\ UNCHANGED target
            /\ UNCHANGED <<isDragging, isRightDragging, distance, camera, sceneVars,
                           pickVars, clockVars, hudVars, loopVars>>

\* the distance a wheel event with this deltaY leaves
WheelResult(d, deltaY) == ClampDistance(Zoomed(d, Sign(deltaY)))

Wheel(deltaY) ==
    /\ distance' = WheelResult(distance, deltaY)
    /\ UNCHANGED <<isDragging, isRightDragging, lastX, lastY, yaw, pitch, target,
                   camera, sceneVars, pickVars, clockVars, hudVars, loopVars>>

\* ------------------------------------------------- scene setup (184-233)
\* One LineLoop per body: the 360 points are
\* AU_TO_UNITS * H(body, anchor + (i / 360) * 365.25 days), i in 0..359.  The
\* query of body number fail throws (0: none does): the loops already in the
\* scene have been removed, and the bodies before it have their new loop.
buildOrbits(time, fail) ==
    LET n == IF fail = 0 THEN NBodies ELSE fail - 1
    IN [i \in 1..n |-> [name |-> bodies[i], anchor |-> time, n |-> samples]]

\* trails.set(p.key, { line, maxPts, count: 0 }); arr holds the written
\* elements of the Float32Array, the others are ZeroVec
NewTrail == [arr |-> <<>>, maxPts |-> maxPts, count |-> 0,
             drawStart |-> 0, drawCount |-> 0, visible |-> TRUE]
At(tr, i) == IF i \in DOMAIN tr.arr THEN tr.arr[i] ELSE ZeroVec

\* a draw range that is not capped at the capacity
DrawCountUncapped(tr) == tr.count
\* setDrawRange(0, Math.min(tr.maxPts, tr.count))
DrawCount(tr) == Min(tr.maxPts, tr.count)
\* tick, lines 360-367: one push into the ring
TrailPush(tr, pos) ==
    LET idx == tr.count % tr.maxPts
        pushed == [tr EXCEPT
                     !.arr = [i \in DOMAIN tr.arr \cup {idx} |->
                                 IF i = idx THEN Fround(pos) ELSE tr.arr[i]],
                     !.count = tr.count + 1]
    IN [pushed EXCEPT !.drawStart = 0, !.drawCount = DrawCount(pushed)]

\* a push that ignores the trail switch
RecordedAlways(tr, pos, shown) == TrailPush(tr, pos)
\* a push that is also skipped while the clock is paused
RecordedUnlessPaused(tr, pos, shown) ==
    IF shown /\ ~paused THEN TrailPush(tr, pos) ELSE tr
\* tick, lines 358-368: the push happens only while the trails are shown
Recorded(tr, pos, shown) == IF shown THEN TrailPush(tr, pos) ELSE tr

\* the points the renderer draws, in the order it draws them
Drawn(tr) == [j \in 1..tr.drawCount |-> At(tr, tr.drawStart + j - 1)]

\* a clear that empties the draw range and keeps the count
resetTrailsRangeOnly(ts) ==
    [k \in DOMAIN ts |-> [ts[k] EXCEPT !.drawStart = 0, !.drawCount = 0]]
resetTrails(ts) ==
    [k \in DOMAIN ts |-> [ts[k] EXCEPT !.count = 0, !.drawStart = 0, !.drawCount = 0]]

\* ---------------------------------------------------- picking (235-270)
\* #info content: the placeholder, or the fields the template formats
\* the info view with a timestamp that does not follow the clock
setInfoUndated(p, helioAU, date) ==
    IF p = null THEN Hint
    ELSE [h |-> p, helioAU |-> helioAU, time |-> 0]
setInfo(p, helioAU, date) ==
    IF p = null THEN Hint
    ELSE [h |-> p, helioAU |-> helioAU, time |-> date]
\* simTime.date.toISOString() cut after the seconds
IsoSeconds(t) == t \div 1000

\* raycaster.intersectObjects: the hit meshes, nearest first (three.js sorts
\* the intersections by distance); ray maps each mesh the ray goes through
\* to its distance
RECURSIVE intersectObjects(_)
intersectObjects(ray) ==
    IF DOMAIN ray = {} THEN <<>>
    ELSE LET k == CHOOSE a \in DOMAIN ray :
                    \A b \in DOMAIN ray :
                        \/ ray[a] < ray[b]
                        \/ ray[a] = ray[b] /\ IndexOf(a) <= IndexOf(b)
         IN <<[object |-> k, distance |-> ray[k]]>>
            \o intersectObjects([b \in DOMAIN ray \ {k} |-> ray[b]])

\* the farthest hit taken for the nearest
PickedLast(hits) == hits[Len(hits)].object
\* hits[0].object.userData
PickedOf(hits) == hits[1].object

Click(ray) ==
    LET hits == intersectObjects(ray)
    IN /\ raycaster' = ray
       /\ IF Len(hits) > 0
          THEN /\ selected' = PickedOf(hits)
               /\ UNCHANGED info
          ELSE /\ selected' = null
               /\ info' = setInfo(null, null, null)
       /\ UNCHANGED <<camVars, camera, sceneVars, clockVars, hudVars, loopVars>>

\* ----------------------------------------------- time control (272-318)
\* `x${Number(timeScale).toLocaleString()}`
syncTimeScaleLabel(scale) == [times |-> scale]

\* the values the range input can hold
SliderValues == {v \in SliderMin..SliderMax : v % SliderStep = 0}

\* the slider value stored as it is
NormalScaleRaw(v) == v
\* if (timeScale === 0) timeScale = 1
NormalScale(v) == IF v = 0 THEN ZeroScale ELSE v

TimeScaleInput(v) ==
    /\ timeScale' = NormalScale(v)
    /\ timeScaleLabel' = syncTimeScaleLabel(timeScale')
    /\ UNCHANGED <<camVars, camera, sceneVars, pickVars, simTime, paused, showTrails,
                   btnPauseText, btnTrailsText, loopVars>>

\* MakeTime(new Date()): the real instant, lag ms after the last frame stamp
RealNow(lag) == last - LoadMs + lag

BtnNow(lag, fail) ==
    /\ simTime' = RealNow(lag)
    /\ trails' = resetTrails(trails)
    /\ orbitLines' = buildOrbits(simTime', fail)
    /\ UNCHANGED <<camVars, camera, planetMeshes, pickVars, paused, timeScale,
                   showTrails, hudVars, loopVars>>

PauseText(p) == IF p THEN "Resume" ELSE "Pause"
BtnPause ==
    /\ paused' = ~paused
    /\ btnPauseText' = PauseText(paused')
    /\ UNCHANGED <<camVars, camera, sceneVars, pickVars, simTime, timeScale,
                   showTrails, timeScaleLabel, btnTrailsText, loopVars>>

TrailsText(s) == IF s THEN "Trails: On" ELSE "Trails: Off"
BtnTrails ==
    /\ showTrails' = ~showTrails
    /\ btnTrailsText' = TrailsText(showTrails')
    /\ trails' = [k \in DOMAIN trails |-> [trails[k] EXCEPT !.visible = showTrails']]
    /\ UNCHANGED <<camVars, camera, planetMeshes, orbitLines, pickVars, simTime,
                   paused, timeScale, timeScaleLabel, btnPauseText, loopVars>>

\* ------------------------------------------------ animation loop (335-387)
\* the frame delta without its cap
FrameDtUncapped(now) == now - last
\* Math.min(0.05, (now - last) / 1000), in ms
FrameDt(now) == Min(FrameCapMs, now - last)
\* the advance without the paused guard
AdvancePaused(t, dt) == t + dt * timeScale
\* if (!paused) simTime = MakeTime(simTime.ut + (dt * timeScale) / 86400)
Advance(t, dt) == IF ~paused THEN t + dt * timeScale ELSE t

\* A frame callback.  The ephemeris query of body number fail throws (0: none
\* does): the exception leaves tick at line 353, so the bodies before it are
\* done, and nothing after the throw runs, the re-scheduling included.
Tick(now, fail) ==
    LET dt == FrameDt(now)
        t == Advance(simTime, dt)
        done == IF fail = 0 THEN NBodies ELSE fail - 1
        au(k) == computeHelioPos(k, t)
        pos(k) == multiplyScalar(au(k), AU_TO_UNITS)
        \* selectedAU is set once the loop has passed the selected body
        hasAU == selected # null /\ IndexOf(selected) <= done
    IN /\ rafPending
       /\ last' = now
       /\ simTime' = t
       /\ planetMeshes' = [k \in Keys |->
                             IF IndexOf(k) <= done THEN pos(k) ELSE planetMeshes[k]]
       /\ trails' = [k \in Keys |->
                       IF IndexOf(k) <= done
                       THEN Recorded(trails[k], pos(k), showTrails) ELSE trails[k]]
       /\ IF fail = 0
          THEN /\ camera' = updateCamera
               /\ info' = IF selected # null /\ hasAU
                          THEN setInfo(selected, au(selected), IsoSeconds(t))
                          ELSE info
               /\ rafPending' = TRUE
          ELSE /\ UNCHANGED <<camera, info>>
               /\ rafPending' = FALSE
       /\ frames' = frames + 1
       /\ UNCHANGED <<camVars, orbitLines, raycaster, selected, paused, timeScale,
                      showTrails, hudVars>>

\* ------------------------------------------------------------------ Init
MeshOrigin == [body |-> "none", ut |-> 0, units |-> 0, f32 |-> FALSE]

Init ==
    /\ isDragging = FALSE
    /\ isRightDragging = FALSE
    /\ lastX = 0
    /\ lastY = 0
    /\ yaw = InitYaw
    /\ pitch = InitPitch
    /\ distance = InitDistance
    /\ target = Origin
    /\ camera = [yaw |-> InitYaw, pitch |-> InitPitch, distance |-> InitDistance,
                 target |-> Origin]
    /\ planetMeshes = [k \in Keys |-> MeshOrigin]
    /\ trails = [k \in Keys |-> NewTrail]
    /\ simTime = 0
    /\ orbitLines = buildOrbits(0, 0)
    /\ raycaster = <<>>
    /\ selected = null
    /\ info = Hint
    /\ paused = FALSE
    /\ timeScale = InitTimeScale
    /\ showTrails = TRUE
    /\ timeScaleLabel = syncTimeScaleLabel(InitTimeScale)
    /\ btnPauseText = "Pause"
    /\ btnTrailsText = "Trails: On"
    /\ last = LoadMs
    /\ rafPending = TRUE
    /\ frames = 0

\* ------------------------------------------------------------ inputs
\* a pick ray: the meshes it goes through, each with its distance
HitDistances == {5, 9}
\* the bodies the rays of the model go through
RayKeys == {"Venus", "Earth"}
Rays == UNION {[S -> HitDistances] : S \in {T \in SUBSET RayKeys : Cardinality(T) <= MaxHits}}
\* the body whose ephemeris query throws in a frame: none, the first, one in
\* the middle, the last
FailAt == {0, 1, 3, NBodies}
\* e.deltaY of a wheel event
WheelDeltas == {-100, 0, 100}

\* ------------------------------------------- the update pipeline (Spec)
\* Frames in which the ephemeris may fail for a body, with picking, the trail
\* switch and the wheel in between (at most one notch between two frames).
Next ==
    \/ \E f \in FailAt : frames < MaxTicks /\ Tick(last + FrameMs, f)
    \/ \E ray \in Rays : Click(ray)
    \/ BtnTrails
    \/ \E dy \in WheelDeltas : distance = camera.distance /\ Wheel(dy)

Spec == Init /\ [][Next]_vars

\* ------------------------------------------------- the clock (SpecClock)
\* Frames with short, long and (before the first frame only: rAF stamps never
\* go back, but the first may precede the performance.now() of line 336)
\* negative real deltas, with the slider, Pause and Now in between.
ClockDeltas == {-8, 0, FrameMs, FrameCapMs, 1000}
ClockScales == {SliderMin, 0, SliderStep}
PossibleDelta(d) == d >= 0 \/ frames = 0

NextClock ==
    \/ \E d \in ClockDeltas :
          frames < ClockTicks /\ PossibleDelta(d) /\ Tick(last + d, 0)
    \/ \E v \in ClockScales : TimeScaleInput(v)
    \/ BtnPause
    \/ BtnNow(ClickLagMs, 0)

SpecClock == Init /\ [][NextClock]_vars

\* ---------------------------------------------- the camera (SpecCamera)
\* Drags between two pointer positions with either button, the wheel turned
\* away from the initial distance down to one limit or up to the other, and
\* frames rendered at the initial distance and at the limits.
Points == {<<0, 0>>, <<100, 200>>}
Buttons == {0, RightButton}
Abs(x) == IF x < 0 THEN -x ELSE x
\* the move stays within the yaw and pan the specification follows
InReach(x, y) ==
    \/ ~isDragging
    \/ /\ isRightDragging
       /\ Abs(RightCoef(target, camera.yaw) - (x - lastX) * distance) <= MaxPan
       /\ Abs(target.up + (y - lastY) * distance) <= MaxPan
    \/ /\ ~isRightDragging
       /\ Abs(yaw - (x - lastX) * OrbitRate) <= MaxYaw
Away(deltaY) ==
    \/ deltaY = 0
    \/ deltaY > 0 /\ distance >= InitDistance
    \/ deltaY < 0 /\ distance <= InitDistance

NextCamera ==
    \/ \E b \in Buttons, p \in Points : PointerDown(b, p[1], p[2])
    \/ \E p \in Points : InReach(p[1], p[2]) /\ PointerMove(p[1], p[2])
    \/ PointerUp
    \/ \E dy \in WheelDeltas : Away(dy) /\ Wheel(dy)
    \/ /\ frames < CamTicks
       /\ distance \in {MinDistance, InitDistance, MaxDistance}
       /\ Tick(last + FrameMs, 0)

SpecCamera == Init /\ [][NextCamera]_vars

\* --------------------------------------------------- the zoom (SpecZoom)
\* Any sequence of wheel events.
NextZoom == \E dy \in WheelDeltas : Wheel(dy)

SpecZoom == Init /\ [][NextZoom]_vars

\* ------------------------------------------------- the trails (SpecTrail)
\* Frames until the ring buffers have wrapped; Pause and Trails are used in
\* the first UiEarly frames, Now also once the buffers are full.
Early == frames <= UiEarly
Full == frames >= maxPts

NextTrail ==
    \/ frames < maxPts + TrailExtra /\ Tick(last + FrameMs, 0)
    \/ (Early \/ Full) /\ BtnNow(ClickLagMs, 0)
    \/ Early /\ BtnTrails
    \/ Early /\ BtnPause

SpecTrail == Init /\ [][NextTrail]_vars

\* --------------------------------------------- a session (SpecSession)
\* Every handler of the page between frames: picking (a miss or Earth), the
\* slider moved to either sign, Pause, Trails, Now (whose orbit rebuild may
\* meet an ephemeris failure), and one camera gesture from the initial view:
\* a drag with either button or a wheel notch.
SessionRays == {ray \in Rays : \A k \in DOMAIN ray : k = "Earth" /\ ray[k] = 5}
SessionScales == {-InitTimeScale, InitTimeScale}
\* the body whose ephemeris query throws while Now rebuilds the orbits
NowFailAt == {0, 3}
InitialView ==
    yaw = InitYaw /\ pitch = InitPitch /\ distance = InitDistance /\ target = Origin

NextSession ==
    \/ frames < SessionTicks /\ Tick(last + FrameMs, 0)
    \/ \E ray \in SessionRays : Click(ray)
    \/ \E v \in SessionScales : TimeScaleInput(v)
    \/ BtnPause
    \/ BtnTrails
    \/ \E f \in NowFailAt : BtnNow(ClickLagMs, f)
    \/ \E b \in Buttons : ~isDragging /\ InitialView /\ PointerDown(b, 0, 0)
    \/ isDragging /\ InitialView /\ PointerMove(100, 200)
    \/ isDragging /\ PointerUp
    \/ \E dy \in WheelDeltas : ~isDragging /\ InitialView /\ Wheel(dy)

SpecSession == Init /\ [][NextSession]_vars

\* ======================================================= properties
\* a step that is a frame callback
FrameStep == frames' = frames + 1
\* a frame callback in which an ephemeris query threw: nothing else clears
\* the pending frame
FailedFrame == rafPending /\ ~rafPending'
ScenePos(k, t) == multiplyScalar(computeHelioPos(k, t), AU_TO_UNITS)
Clamp(x, lo, hi) == Max(lo, Min(hi, x))

\* C1: in a frame where the ephemeris query throws for one body, at most that
\* one body misses its position and its trail push, and the camera pose and
\* the info view of the selection are refreshed in that frame.
C1_FailureIsolated ==
    [][FailedFrame =>
        /\ Cardinality({k \in Keys : planetMeshes'[k] # ScenePos(k, simTime')}) <= 1
        /\ showTrails => Cardinality({k \in Keys : trails'[k] = trails[k]}) <= 1
        /\ camera' = [yaw |-> yaw', pitch |-> pitch', distance |-> distance',
                      target |-> target']
        /\ (selected # null /\ planetMeshes'[selected] = ScenePos(selected, simTime'))
              => info' = setInfo(selected, computeHelioPos(selected, simTime'),
                                 IsoSeconds(simTime'))]_vars

\* the last min(count, maxPts) pushed positions, oldest first: push number n
\* (from 0) is written at index n % maxPts
LastPushed(tr) ==
    LET n == Min(tr.count, tr.maxPts)
    IN [j \in 1..n |-> At(tr, (tr.count - n + j - 1) % tr.maxPts)]

\* C2: once more than maxPts positions have been pushed, the drawn range of
\* every trail has length maxPts and, in drawing order, is the last maxPts
\* pushed positions from the oldest to the newest.
C2_DrawnInPushOrder ==
    \A k \in Keys :
        trails[k].count > maxPts =>
            /\ Len(Drawn(trails[k])) = maxPts
            /\ Drawn(trails[k]) = LastPushed(trails[k])

SameData(a, b) == a.arr = b.arr /\ a.count = b.count /\ a.drawCount = b.drawCount

\* C3 as stated: the trail switch clears nothing, and a frame run while the
\* trails are hidden still pushes one position per body.
C3_HiddenTrailsRecord ==
    [][/\ showTrails' # showTrails =>
              \A k \in Keys : SameData(trails'[k], trails[k])
       /\ (FrameStep /\ rafPending' /\ ~showTrails) =>
              \A k \in Keys : trails'[k].count = trails[k].count + 1]_vars

\* C3 amended: the trail switch clears nothing, and a frame run while the
\* trails are hidden leaves every trail buffer, count and drawn range as they
\* were, so switching the trails on again shows what was recorded before.
C3_HiddenTrailsFrozen ==
    [][/\ showTrails' # showTrails =>
              \A k \in Keys : SameData(trails'[k], trails[k])
       /\ (FrameStep /\ ~showTrails) => trails' = trails]_vars

\* trails shown again after one frame was recorded and one ran hidden
C3_Witness ==
    /\ showTrails /\ rafPending /\ frames = 2
    /\ \A k \in Keys : trails[k].visible /\ trails[k].count = 1

\* C4: an unpaused frame changes the simulation time by exactly
\* clamp(d, 0, 0.05 s) * scale, d the real delta between the two frames.
C4_ClampedAdvance ==
    [][(FrameStep /\ ~paused) =>
          simTime' - simTime = Clamp(last' - last, 0, FrameCapMs) * timeScale]_vars

\* C5 as stated: at scale 600, a frame one real second after the previous one
\* moves the time by 600 simulated seconds.
C5_FullSecond ==
    [][(FrameStep /\ ~paused /\ timeScale = InitTimeScale /\ last' - last = 1000) =>
          simTime' = simTime + 1000 * InitTimeScale]_vars

\* C5 amended: at scale 600, a frame one real second after the previous one
\* moves the time by 0.05 * 600 = 30 simulated seconds, the delta being capped.
C5_CappedSecond ==
    [][(FrameStep /\ ~paused /\ timeScale = InitTimeScale /\ last' - last = 1000) =>
          simTime' = simTime + FrameCapMs * InitTimeScale]_vars

C5_Witness ==
    /\ frames = 1 /\ last = LoadMs + 1000 /\ timeScale = InitTimeScale
    /\ simTime = FrameCapMs * InitTimeScale

\* a click on Now: the only step that sets the time to the real instant
\* without running a frame
NowStep == simTime' = RealNow(ClickLagMs) /\ last' = last /\ frames' = frames

\* C6: the pause button negates paused and changes nothing else of the clock
\* (the time, the scale, the trail switch), and no step taken while paused,
\* whatever the frame deltas and scale changes, changes the simulation time,
\* a click on Now excepted.
C6_PauseFreezesTime ==
    [][/\ (paused' # paused \/ btnPauseText' # btnPauseText) =>
              /\ paused' = ~paused
              /\ UNCHANGED <<simTime, timeScale, showTrails, sceneVars, last>>
       /\ (paused /\ ~NowStep) => simTime' = simTime]_vars

\* two frames with nonzero real deltas have run and recorded the load instant
C6_Witness ==
    /\ paused /\ frames = 2 /\ simTime = 0 /\ last = LoadMs + FrameMs + 1000
    /\ trails["Earth"].count = 2
    /\ At(trails["Earth"], 0).ut = 0 /\ At(trails["Earth"], 1).ut = 0

\* C7: the time scale is never zero: a zero typed on the slider is stored as
\* the least nonzero magnitude, and an unpaused frame with a positive real
\* delta changes the simulation time.
C7_ScaleNeverZero ==
    [][/\ timeScale # 0 /\ timeScale' # 0
       /\ Abs(timeScale') >= ZeroScale
       /\ timeScaleLabel' = syncTimeScaleLabel(timeScale')
       /\ (FrameStep /\ ~paused /\ last' > last) => simTime' # simTime]_vars

\* a frame of FrameMs has run at the scale that replaces zero
C7_Witness ==
    /\ timeScale = ZeroScale /\ ~paused /\ frames = 1
    /\ simTime = FrameMs * ZeroScale

CameraInRange ==
    /\ pitch \in (-PitchLimit)..PitchLimit
    /\ distance \in MinDistance..MaxDistance

ZoomPlus(d) == WheelResult(d, 100)
ZoomMinus(d) == WheelResult(d, -100)

\* C9 as stated: zoom(+1) never increases the distance and stops at 50,
\* zoom(-1) never decreases it and stops at 12000.
C9_PlusZoomsIn ==
    /\ ZoomPlus(distance) <= distance /\ ZoomPlus(distance) >= MinDistance
    /\ ZoomMinus(distance) >= distance /\ ZoomMinus(distance) <= MaxDistance

\* C9 amended: zoom(+1) never decreases the distance, increases it while it is
\* below 12000 and leaves it at 12000, never above; zoom(-1) never increases
\* it, decreases it while it is above 50 and leaves it at 50, never below.
C9_PlusZoomsOut ==
    /\ ZoomPlus(distance) >= distance /\ ZoomPlus(distance) <= MaxDistance
    /\ distance < MaxDistance => ZoomPlus(distance) > distance
    /\ ZoomMinus(distance) <= distance /\ ZoomMinus(distance) >= MinDistance
    /\ distance > MinDistance => ZoomMinus(distance) < distance

\* repeated zoom(+1) has brought the distance to its upper limit
C9_Witness == distance = MaxDistance

\* C10: after a click the selection is a body the ray hits at the least
\* distance; after a click whose ray hits nothing, the selection is none and
\* the info view shows the placeholder.
C10_NearestHitWins ==
    /\ DOMAIN raycaster # {} =>
          /\ selected \in DOMAIN raycaster
          /\ \A b \in DOMAIN raycaster : raycaster[selected] <= raycaster[b]
    /\ DOMAIN raycaster = {} => selected = null /\ info = Hint

\* Earth at 5 wins over Venus at 9, after a frame had filled the info view
C10_Witness ==
    /\ DOMAIN raycaster = {"Earth", "Venus"}
    /\ raycaster["Earth"] = 5 /\ raycaster["Venus"] = 9
    /\ selected = "Earth" /\ info # Hint

\* what the handlers other than the canvas click write
OutsidePick == <<camVars, camera, sceneVars, clockVars, hudVars, loopVars>>

\* C11: only a click changes the selection: a step that changes the selected
\* body changes nothing a frame, the slider, Pause, Now, Trails, a drag or the
\* wheel writes, so none of these handlers changes it, wherever the body is.
C11_OnlyClickSelects ==
    [][selected' # selected => UNCHANGED OutsidePick]_vars

\* Earth is still selected after a frame moved it and showed it in the info
\* view, and after Pause, Trails, the slider, Now and the wheel were used
C11_Witness ==
    /\ selected = "Earth" /\ info # Hint
    /\ info.helioAU.ut = FrameMs * InitTimeScale
    /\ simTime # info.helioAU.ut
    /\ paused /\ ~showTrails /\ timeScale = -InitTimeScale
    /\ distance # InitDistance

\* a step that moves the time without running a frame: a click on Now
NowClick == frames' = frames /\ simTime' # simTime

\* the orbit loops are one 360-sample loop per catalog body, all anchored at t
RebuiltAt(lines, t) ==
    /\ Len(lines) = NBodies
    /\ \A i \in BodyIdx : lines[i] = [name |-> bodies[i], anchor |-> t, n |-> samples]

\* C12: a click on Now sets the time to the real instant and, in the same
\* step, leaves every trail with count 0 and nothing drawn and every body with
\* a new orbit loop of 360 samples anchored at the new time, so that no trail
\* point and no orbit loop of the old time origin is shown.
C12_NowResetsAll ==
    [][NowClick =>
          /\ simTime' = RealNow(ClickLagMs)
          /\ \A k \in Keys : trails'[k].count = 0 /\ Drawn(trails'[k]) = <<>>
          /\ RebuiltAt(orbitLines', simTime')]_vars

C14_OrbitsRebuiltWholesale ==
    [][orbitLines' # orbitLines =>
          /\ frames' = frames
          /\ simTime' = RealNow(ClickLagMs)
          /\ RebuiltAt(orbitLines', simTime')]_vars

\* the step pushes pos into tr: it writes the ring at count mod maxPts, an
\* index of the buffer, leaves the other elements alone and adds one to count
PushedInto(tr, after, pos) ==
    LET idx == tr.count % tr.maxPts
    IN /\ idx \in 0..(tr.maxPts - 1)
       /\ after.count = tr.count + 1
       /\ At(after, idx) = Fround(pos)
       /\ DOMAIN after.arr = DOMAIN tr.arr \cup {idx}
       /\ [i \in DOMAIN tr.arr \ {idx} |-> after.arr[i]]
             = [i \in DOMAIN tr.arr \ {idx} |-> tr.arr[i]]

\* C15: in every state the drawn length of every trail is min(count, maxPts);
\* a step that changes a trail's count or buffer is either a push, which
\* writes at index count mod maxPts and adds one to count, or the clear of a
\* click on Now, which sets count to 0; count never decreases otherwise.
C15_RingInvariant ==
    [][\A k \in Keys :
          /\ trails[k].drawCount = Min(trails[k].count, maxPts)
          /\ trails'[k].drawCount = Min(trails'[k].count, maxPts)
          /\ (trails'[k].count # trails[k].count \/ trails'[k].arr # trails[k].arr) =>
                \/ /\ FrameStep
                   /\ PushedInto(trails[k], trails'[k], ScenePos(k, simTime'))
                \/ /\ frames' = frames
                   /\ simTime' = RealNow(ClickLagMs)
                   /\ trails'[k].count = 0
                   /\ trails'[k].arr = trails[k].arr]_vars

\* one push past the capacity: the newest position is at index 0
C15_Witness ==
    \A k \in Keys :
        /\ trails[k].count = maxPts + 1
        /\ Len(Drawn(trails[k])) = maxPts
        /\ At(trails[k], 0) = Fround(ScenePos(k, simTime))
        /\ At(trails[k], 1) # At(trails[k], 0)

\* C16: the clear of a click on Now leaves every count at 0, and the first
\* push into a trail whose count is 0 leaves exactly one point drawn, the
\* position just pushed, whatever the buffer held before the clear.
C16_FirstPushAfterClear ==
    [][/\ NowClick => \A k \in Keys : trails'[k].count = 0
       /\ \A k \in Keys :
             (FrameStep /\ trails[k].count = 0 /\ trails'[k] # trails[k]) =>
                 Drawn(trails'[k]) = <<Fround(ScenePos(k, simTime'))>>]_vars

\* the buffers were full and had wrapped when Now cleared them, and one frame
\* has pushed since
C16_Witness ==
    /\ frames > maxPts + 1
    /\ \A k \in Keys :
          /\ trails[k].count = 1
          /\ Cardinality(DOMAIN trails[k].arr) = maxPts
          /\ Drawn(trails[k]) = <<Fround(ScenePos(k, simTime))>>
          /\ At(trails[k], 1) # ZeroVec

\* C17: the orbit angles change only in a move of a drag begun with a button
\* other than the secondary one, and then target and distance stay; target
\* changes only in a move of a drag begun with the secondary button, and then
\* yaw, pitch and distance stay; so a move outside a drag changes nothing of
\* the camera; and a pointer-up ends the drag and the pan mode together.
C17_DragModes ==
    [][/\ (yaw' # yaw \/ pitch' # pitch) =>
             /\ isDragging /\ ~isRightDragging /\ isDragging'
             /\ target' = target /\ distance' = distance
       /\ target' # target =>
             /\ isDragging /\ isRightDragging /\ isDragging'
             /\ yaw' = yaw /\ pitch' = pitch /\ distance' = distance
       /\ (~isDragging /\ ~isDragging') => UNCHANGED <<lastX, lastY, yaw, pitch, target>>
       /\ ~isDragging' => ~isRightDragging']_vars

\* after a pan at the least distance and an orbit drag, both released
C17_Witness ==
    /\ ~isDragging /\ ~isRightDragging
    /\ target # Origin /\ yaw # InitYaw /\ pitch # InitPitch
    /\ distance = MinDistance

\* C18: the frame loop never stops: every frame callback, also one in which
\* an ephemeris query throws, ends with the next frame scheduled.
C18_EveryFrameReschedules ==
    [][FrameStep => rafPending']_vars

C20_TrailsInStep ==
    \A a, b \in Keys :
        /\ trails[a].count = trails[b].count
        /\ Len(Drawn(trails[a])) = Len(Drawn(trails[b]))
====
